---- MODULE Spec2Model ----
(***************************************************************************)
(* Alias lookup and resolution, ancestry reconstruction and the ancestry   *)
(* and recombinant reports of pango_explain                                *)
(* (src/pango_explain/pango_alias.py).                                     *)
(*                                                                         *)
(* A Python str is a sequence of one-character strings, so that parsing,   *)
(* upper-casing, trimming and re-serialisation are computed, not assumed.  *)
(* The alias table is a sequence of (key, value) entries in dict           *)
(* iteration order; a value is a str or a list of str.                     *)
(***************************************************************************)
EXTENDS Integers, Sequences, FiniteSets, TLC

\* ------------------------------------------------------------ characters

UpperLetters == {"A", "B", "C", "D", "J", "N", "Q", "X"}

LowerLetters == {"a", "b", "c", "j", "n", "x"}

DigitChars == {"0", "1", "2", "3", "5", "6", "8", "9"}

WhiteSpace == {" "}

\* [A-Za-z] of _PANGO_PATTERN
IsLetter(c) == c \in UpperLetters \cup LowerLetters

\* \d of _PANGO_PATTERN
IsDigit(c) == c \in DigitChars

\* str.upper() on one character
UpperChar(c) ==
    CASE c = "a" -> "A"
      [] c = "b" -> "B"
      [] c = "c" -> "C"
      [] c = "j" -> "J"
      [] c = "n" -> "N"
      [] c = "x" -> "X"
      [] OTHER -> c

\* str.upper()
Upper(s) == [i \in 1..Len(s) |-> UpperChar(s[i])]

\* str.strip(): drop leading and trailing whitespace
Strip(s) ==
    IF \A i \in 1..Len(s) : s[i] \in WhiteSpace
    THEN <<>>
    ELSE LET first == CHOOSE i \in 1..Len(s) :
                          /\ s[i] \notin WhiteSpace
                          /\ \A j \in 1..(i - 1) : s[j] \in WhiteSpace
             last  == CHOOSE i \in 1..Len(s) :
                          /\ s[i] \notin WhiteSpace
                          /\ \A j \in (i + 1)..Len(s) : s[j] \in WhiteSpace
         IN  SubSeq(s, first, last)

\* str.lstrip(".")
RECURSIVE LStripDots(_)
LStripDots(s) ==
    IF s # <<>> /\ Head(s) = "." THEN LStripDots(Tail(s)) ELSE s

\* str.split("."): the pieces between dots, empty pieces included
RECURSIVE SplitDots(_)
SplitDots(s) ==
    IF \E i \in 1..Len(s) : s[i] = "."
    THEN LET i == CHOOSE k \in 1..Len(s) :
                      s[k] = "." /\ \A j \in 1..(k - 1) : s[j] # "."
         IN  <<SubSeq(s, 1, i - 1)>> \o SplitDots(SubSeq(s, i + 1, Len(s)))
    ELSE <<s>>

\* [part for part in ... if part]
RECURSIVE NonEmptyParts(_)
NonEmptyParts(parts) ==
    IF parts = <<>> THEN <<>>
    ELSE IF Head(parts) = <<>> THEN NonEmptyParts(Tail(parts))
         ELSE <<Head(parts)>> \o NonEmptyParts(Tail(parts))

\* "".join(f".{part}" for part in parts)
RECURSIVE JoinDotted(_)
JoinDotted(parts) ==
    IF parts = <<>> THEN <<>>
    ELSE <<".">> \o Head(parts) \o JoinDotted(Tail(parts))

\* ------------------------------------------------------------ name grammar

\* group(1) of the match: the greedy run of letters at the start
LetterRunLen(s) ==
    CHOOSE n \in 0..Len(s) :
        /\ \A i \in 1..n : IsLetter(s[i])
        /\ (n = Len(s) \/ ~IsLetter(s[n + 1]))

\* (?:\.\d+)* matches the whole of rest
MatchesGroups(rest) ==
    \/ rest = <<>>
    \/ /\ Head(rest) = "."
       /\ LET pieces == SplitDots(Tail(rest))
          IN  \A i \in 1..Len(pieces) :
                  /\ pieces[i] # <<>>
                  /\ \A j \in 1..Len(pieces[i]) : IsDigit(pieces[i][j])

\* _PANGO_PATTERN.fullmatch(value)
PangoMatch(value) ==
    /\ LetterRunLen(value) >= 1
    /\ MatchesGroups(SubSeq(value, LetterRunLen(value) + 1, Len(value)))

NoSplit == [ok |-> FALSE, letters |-> <<>>, suffix |-> <<>>]

\* split_pango_name without the .upper() of line 50
split_pango_name_KeepCase(value) ==
    IF ~PangoMatch(value) THEN NoSplit
    ELSE [ok      |-> TRUE,
          letters |-> SubSeq(value, 1, LetterRunLen(value)),
          suffix  |-> NonEmptyParts(SplitDots(LStripDots(
                          SubSeq(value, LetterRunLen(value) + 1, Len(value)))))]

\* str(int(part)): the digits of part without leading zeros
RECURSIVE StripZeros(_)
StripZeros(part) ==
    IF Len(part) > 1 /\ Head(part) = "0" THEN StripZeros(Tail(part)) ELSE part

\* split_pango_name reading each suffix group as a number
split_pango_name_IntGroups(value) ==
    IF ~PangoMatch(value) THEN NoSplit
    ELSE [ok      |-> TRUE,
          letters |-> Upper(SubSeq(value, 1, LetterRunLen(value))),
          suffix  |-> [i \in 1..Len(NonEmptyParts(SplitDots(LStripDots(
                               SubSeq(value, LetterRunLen(value) + 1, Len(value)))))) |->
                          StripZeros(NonEmptyParts(SplitDots(LStripDots(
                               SubSeq(value, LetterRunLen(value) + 1, Len(value)))))[i])]]

\* _split_pango_name: ok = FALSE stands for the ValueError
split_pango_name(value) ==
    IF ~PangoMatch(value) THEN NoSplit
    ELSE LET n          == LetterRunLen(value)
             suffix_raw == SubSeq(value, n + 1, Len(value))
         IN  [ok      |-> TRUE,
              letters |-> Upper(SubSeq(value, 1, n)),
              suffix  |-> IF suffix_raw = <<>> THEN <<>>
                          ELSE NonEmptyParts(SplitDots(LStripDots(suffix_raw)))]

\* letters + "".join(f".{part}" for part in suffix_parts)
Render(letters, suffix_parts) == letters \o JoinDotted(suffix_parts)

NoText == [ok |-> FALSE, text |-> <<>>]

\* the serialisation of a parsed designation
Normalized(p) ==
    IF p.ok THEN [ok |-> TRUE, text |-> Render(p.letters, p.suffix)] ELSE NoText

\* _normalize_designation: ok = FALSE stands for the ValueError
normalize_designation(value) == Normalized(split_pango_name(value))

\* ------------------------------------------------------------ alias table

StrV(t) == [kind |-> "str", text |-> t, items |-> <<>>]

ListV(l) == [kind |-> "list", text |-> <<>>, items |-> l]

\* isinstance(alias_value, str) and alias_value
IsNonEmptyStr(v) == v.kind = "str" /\ v.text # <<>>

NoKey == [found |-> FALSE, key |-> <<>>]

\* the key of the first entry, in iteration order, among the entries hits
FirstKey(hits, alias_map) ==
    IF hits = {} THEN NoKey
    ELSE [found |-> TRUE,
          key   |-> alias_map[CHOOSE i \in hits : \A j \in hits : i <= j].key]

\* _find_case_insensitive_key: the first key, in iteration order, equal to
\* key once both are upper-cased; found = FALSE stands for None
find_case_insensitive_key(key, alias_map) ==
    FirstKey({i \in 1..Len(alias_map) : Upper(alias_map[i].key) = Upper(key)},
             alias_map)

\* alias_map[key] for a key of the map
ValueOf(key, alias_map) ==
    alias_map[CHOOSE i \in 1..Len(alias_map) : alias_map[i].key = key].val

\* the entries whose non-empty str value normalizes to normalized_value
ValueHits(normalized_value, alias_map) ==
    {i \in 1..Len(alias_map) :
        /\ IsNonEmptyStr(alias_map[i].val)
        /\ normalize_designation(alias_map[i].val.text) =
               [ok |-> TRUE, text |-> normalized_value]}

\* lines 101-108: a bare letter prefix is its own alias when it is a key of
\* the map, or is A or B
RootKey(letters, root_key) ==
    IF root_key.found THEN root_key
    ELSE IF letters \in {<<"A">>, <<"B">>} THEN [found |-> TRUE, key |-> letters]
    ELSE NoKey

\* LettersFallback without the check of line 98 that no suffix groups remain
LettersFallback_IgnoreSuffix(p, alias_map) ==
    IF ~p.ok THEN NoKey
    ELSE RootKey(p.letters, find_case_insensitive_key(p.letters, alias_map))

\* lines 93-108: no str value matched
LettersFallback(p, alias_map) ==
    IF ~p.ok THEN NoKey
    ELSE IF p.suffix # <<>> THEN NoKey
    ELSE RootKey(p.letters, find_case_insensitive_key(p.letters, alias_map))

\* lines 84-108, for the normalized value
FindNormalized(normalized_value, hits, alias_map) ==
    IF hits # {} THEN FirstKey(hits, alias_map)
    ELSE LettersFallback(split_pango_name(normalized_value), alias_map)

\* lines 79-82, then the scan
FindAlias(nv, alias_map) ==
    IF ~nv.ok THEN NoKey
    ELSE FindNormalized(nv.text, ValueHits(nv.text, alias_map), alias_map)

\* _find_alias_for_value: found = FALSE stands for None
find_alias_for_value(value, alias_map) ==
    FindAlias(normalize_designation(value), alias_map)

\* ------------------------------------------------------------ alias resolver

\* "at most three suffix groups" of an input designation
MaxSuffixGroups == 3

\* suffix groups contributed by one alias generation
GroupSize == 3

RootLetters == {<<"A">>, <<"B">>}

\* a raised ValueError: err is the error kind, site the raise statement
Fail(kind, where) == [ok |-> FALSE, text |-> <<>>, err |-> kind, site |-> where]

Ok(t) == [ok |-> TRUE, text |-> t, err |-> "none", site |-> "none"]

\* letter_component.startswith("X")
StartsWithX(letters) == letters # <<>> /\ letters[1] = "X"

\* ResolveParsed with the name's groups put before the stored groups
ResolveParsed_SuffixFirst(r, suffix_parts) ==
    IF ~r.ok THEN Fail("InvalidFormat", "unsupported_value")
    ELSE IF r.suffix # <<>> /\ Len(r.suffix) % GroupSize # 0
    THEN Fail("InvalidFormat", "not_multiple_of_three")
    ELSE Ok(Render(r.letters, suffix_parts \o r.suffix))

\* ResolveParsed returning the stored value alone, without the name's groups
ResolveParsed_DropSuffix(r, suffix_parts) ==
    IF ~r.ok THEN Fail("InvalidFormat", "unsupported_value")
    ELSE IF r.suffix # <<>> /\ Len(r.suffix) % GroupSize # 0
    THEN Fail("InvalidFormat", "not_multiple_of_three")
    ELSE Ok(Render(r.letters, r.suffix))

\* lines 253-266: the parsed alias value r, extended by the name's suffix
ResolveParsed(r, suffix_parts) ==
    IF ~r.ok THEN Fail("InvalidFormat", "unsupported_value")
    ELSE IF r.suffix # <<>> /\ Len(r.suffix) % GroupSize # 0
    THEN Fail("InvalidFormat", "not_multiple_of_three")
    ELSE Ok(Render(r.letters, r.suffix \o suffix_parts))

\* ResolveValue without the multiple-of-three check of line 260
ResolveValue_NoParity(alias_value, suffix_parts) ==
    IF ~IsNonEmptyStr(alias_value) THEN Fail("NoDesignation", "not_a_string")
    ELSE IF ~split_pango_name(alias_value.text).ok
    THEN Fail("InvalidFormat", "unsupported_value")
    ELSE Ok(Render(split_pango_name(alias_value.text).letters,
                   split_pango_name(alias_value.text).suffix \o suffix_parts))

\* lines 248-266
ResolveValue(alias_value, suffix_parts) ==
    IF ~IsNonEmptyStr(alias_value) THEN Fail("NoDesignation", "not_a_string")
    ELSE ResolveParsed(split_pango_name(alias_value.text), suffix_parts)

\* lines 247-266 of unroll_pango_name: resolve a known ordinary alias
ResolveAlias(alias_key, suffix_parts, alias_map) ==
    ResolveValue(ValueOf(alias_key, alias_map), suffix_parts)

\* UnrollLookup with the unknown-alias check of line 244 before the
\* missing-suffix check of line 241
UnrollLookup_UnknownFirst(p, alias_key, alias_map) ==
    IF ~alias_key.found
    THEN Fail("UnknownAlias", "unknown_alias")
    ELSE IF StartsWithX(p.letters)
    THEN Ok(Render(p.letters, p.suffix))
    ELSE IF p.suffix = <<>>
    THEN Fail("InvalidFormat", "needs_suffix")
    ELSE ResolveAlias(alias_key.key, p.suffix, alias_map)

\* UnrollLookup without the X branch of lines 236-239: recombinant names
\* are resolved through their table value like ordinary aliases
UnrollLookup_ResolveX(p, alias_key, alias_map) ==
    IF p.suffix = <<>>
    THEN Fail("InvalidFormat", "needs_suffix")
    ELSE IF ~alias_key.found
    THEN Fail("UnknownAlias", "unknown_alias")
    ELSE ResolveAlias(alias_key.key, p.suffix, alias_map)

\* lines 236-266: the name is no universal root, alias_key is the result of
\* the case-insensitive lookup of its letters
UnrollLookup(p, alias_key, alias_map) ==
    IF StartsWithX(p.letters)
    THEN IF ~alias_key.found
         THEN Fail("UnknownAlias", "unknown_recombinant")
         ELSE Ok(Render(p.letters, p.suffix))
    ELSE IF p.suffix = <<>>
    THEN Fail("InvalidFormat", "needs_suffix")
    ELSE IF ~alias_key.found
    THEN Fail("UnknownAlias", "unknown_alias")
    ELSE ResolveAlias(alias_key.key, p.suffix, alias_map)

\* UnrollParsed without the A/B shortcut of lines 231-232
UnrollParsed_NoRootShortcut(p, alias_map) ==
    IF ~p.ok THEN Fail("InvalidFormat", "not_valid")
    ELSE IF Len(p.suffix) > MaxSuffixGroups
    THEN Fail("InvalidFormat", "too_many_groups")
    ELSE UnrollLookup(p, find_case_insensitive_key(p.letters, alias_map), alias_map)

\* UnrollParsed with the A/B shortcut before the group count check
UnrollParsed_RootFirst(p, alias_map) ==
    IF ~p.ok THEN Fail("InvalidFormat", "not_valid")
    ELSE IF p.letters \in RootLetters
    THEN Ok(Render(p.letters, p.suffix))
    ELSE IF Len(p.suffix) > MaxSuffixGroups
    THEN Fail("InvalidFormat", "too_many_groups")
    ELSE UnrollLookup(p, find_case_insensitive_key(p.letters, alias_map), alias_map)

\* lines 219-266: the trimmed name parsed as p
UnrollParsed(p, alias_map) ==
    IF ~p.ok THEN Fail("InvalidFormat", "not_valid")
    ELSE IF Len(p.suffix) > MaxSuffixGroups
    THEN Fail("InvalidFormat", "too_many_groups")
    ELSE IF p.letters \in RootLetters
    THEN Ok(Render(p.letters, p.suffix))
    ELSE UnrollLookup(p, find_case_insensitive_key(p.letters, alias_map), alias_map)

\* lines 215-266
UnrollTrimmed(trimmed, alias_map) ==
    IF trimmed = <<>> THEN Fail("InvalidFormat", "empty")
    ELSE UnrollParsed(split_pango_name(trimmed), alias_map)

unroll_pango_name(value, alias_map) == UnrollTrimmed(Strip(value), alias_map)

\* ------------------------------------------------------------ ancestry walker

\* an entry of the OrderedDict: none = TRUE is the value None
Entry(k, p) == [key |-> k, none |-> FALSE, parent |-> p]

RootEntry(k) == [key |-> k, none |-> TRUE, parent |-> <<>>]

\* alias_name in ancestry
InChain(k, chain) == \E i \in 1..Len(chain) : chain[i].key = k

\* ancestry[k] = ...: a present key keeps its position, a new key is appended
DictSet(chain, e) ==
    IF InChain(e.key, chain)
    THEN [i \in 1..Len(chain) |-> IF chain[i].key = e.key THEN e ELSE chain[i]]
    ELSE Append(chain, e)

\* line 325
BareNormalized(n) ==
    IF n.ok THEN Ok(n.text) ELSE Fail("InvalidFormat", "bare_not_valid")

\* lines 320-325: a bare alias starts at its stored value
BareValue(alias_value) ==
    IF ~IsNonEmptyStr(alias_value) THEN Fail("NoDesignation", "bare_not_a_string")
    ELSE BareNormalized(normalize_designation(alias_value.text))

\* lines 317-325
BareAlias(alias_key, alias_map) ==
    IF ~alias_key.found THEN Fail("UnknownAlias", "unknown_bare_alias")
    ELSE BareValue(ValueOf(alias_key.key, alias_map))

\* lines 314-325: the starting canonical form
StartingForm(trimmed, orig, alias_map) ==
    IF orig.suffix # <<>> \/ orig.letters \in RootLetters \/ StartsWithX(orig.letters)
    THEN unroll_pango_name(trimmed, alias_map)
    ELSE BareAlias(find_case_insensitive_key(orig.letters, alias_map), alias_map)

\* StripOwnSuffix keeping the name's own suffix groups in the ancestor value
StripOwnSuffix_Keep(orig, u) ==
    IF ~u.ok THEN Fail("InvalidFormat", "unrolled_not_valid")
    ELSE IF Len(orig.suffix) > Len(u.suffix)
    THEN Fail("InvalidFormat", "shorter_than_suffix")
    ELSE Ok(Render(u.letters, u.suffix))

\* lines 327-339: the unrolled form u without the name's own suffix groups
StripOwnSuffix(orig, u) ==
    IF ~u.ok THEN Fail("InvalidFormat", "unrolled_not_valid")
    ELSE IF Len(orig.suffix) > Len(u.suffix)
    THEN Fail("InvalidFormat", "shorter_than_suffix")
    ELSE Ok(Render(u.letters,
                   IF orig.suffix # <<>>
                   THEN SubSeq(u.suffix, 1, Len(u.suffix) - Len(orig.suffix))
                   ELSE u.suffix))

\* lines 327-339
AncestorOf(orig, unrolled) ==
    IF ~unrolled.ok THEN unrolled
    ELSE StripOwnSuffix(orig, split_pango_name(unrolled.text))

\* lines 309-339
AncestorParsed(trimmed, orig, alias_map) ==
    IF ~orig.ok THEN Fail("InvalidFormat", "not_valid")
    ELSE AncestorOf(orig, StartingForm(trimmed, orig, alias_map))

\* lines 305-339
AncestorTrimmed(trimmed, alias_map) ==
    IF trimmed = <<>> THEN Fail("InvalidFormat", "empty")
    ELSE AncestorParsed(trimmed, split_pango_name(trimmed), alias_map)

\* lines 305-339 of get_ancestral_dict: the ancestor value the walk starts at
AncestorValue(value, alias_map) == AncestorTrimmed(Strip(value), alias_map)

\* lines 351-354: the terminal entry, unless its key is already recorded
Terminal(alias_name, chain) ==
    IF ~InChain(alias_name, chain) THEN Append(chain, RootEntry(alias_name))
    ELSE chain

\* Hop recording the parent's canonical value instead of the parent's alias
\* followed by the peeled groups
Hop_ParentValue(alias_name, parent_value, parent_alias, tail, chain) ==
    IF ~parent_alias.found
    THEN [status |-> "fail", chain |-> chain, current |-> parent_value]
    ELSE [status  |-> "next",
          chain   |-> DictSet(chain, Entry(alias_name, parent_value)),
          current |-> parent_value]

\* Hop returning the entries recorded so far when the parent prefix has no
\* alias, instead of raising
Hop_NoParentCheck(alias_name, parent_value, parent_alias, tail, chain) ==
    IF ~parent_alias.found
    THEN [status |-> "done", chain |-> chain, current |-> parent_value]
    ELSE [status  |-> "next",
          chain   |-> DictSet(chain, Entry(alias_name, parent_alias.key \o tail)),
          current |-> parent_value]

\* lines 358-364: record alias_name -> parent_alias + tail, move to the parent
Hop(alias_name, parent_value, parent_alias, tail, chain) ==
    IF ~parent_alias.found
    THEN [status |-> "fail", chain |-> chain, current |-> parent_value]
    ELSE [status  |-> "next",
          chain   |-> DictSet(chain, Entry(alias_name, parent_alias.key \o tail)),
          current |-> parent_value]

\* lines 356-364: peel the last three suffix groups
Peel(alias_name, current_value, p, parent_value, chain, alias_map) ==
    Hop(alias_name, parent_value,
        find_alias_for_value(parent_value, alias_map),
        JoinDotted(SubSeq(p.suffix, Len(p.suffix) - GroupSize + 1, Len(p.suffix))),
        chain)

\* Walked peeling with the slice suffix_parts[:-2] instead of [:-3]
Walked_PeelTwo(alias_name, current_value, p, chain, alias_map) ==
    IF Len(p.suffix) < GroupSize
    THEN [status  |-> "done",
          chain   |-> Terminal(alias_name, chain),
          current |-> current_value]
    ELSE Peel(alias_name, current_value, p,
              Render(p.letters, SubSeq(p.suffix, 1, Len(p.suffix) - (GroupSize - 1))),
              chain, alias_map)

\* lines 349-364
Walked(alias_name, current_value, p, chain, alias_map) ==
    IF Len(p.suffix) < GroupSize
    THEN [status  |-> "done",
          chain   |-> Terminal(alias_name, chain),
          current |-> current_value]
    ELSE Peel(alias_name, current_value, p,
              Render(p.letters, SubSeq(p.suffix, 1, Len(p.suffix) - GroupSize)),
              chain, alias_map)

\* lines 346-364
WalkFrom(alias_name, current_value, chain, alias_map) ==
    IF ~alias_name.found
    THEN [status |-> "fail", chain |-> chain, current |-> current_value]
    ELSE Walked(alias_name.key, current_value, split_pango_name(current_value),
                chain, alias_map)

\* one iteration of the while loop (lines 344-364)
\* status: "done" after break, "next" to loop again, "fail" for the ValueError
WalkStep(current_value, chain, alias_map) ==
    WalkFrom(find_alias_for_value(current_value, alias_map), current_value,
             chain, alias_map)

\* ------------------------------------------------------------ inputs

\* entries of the largest alias table drawn
MaxEntries == 2

\* suffix groups of the longest input name drawn
MaxNameGroups == 4

sA  == <<"A">>
sB  == <<"B">>
sBA == <<"B", "A">>
sJN == <<"J", "N">>
sXB == <<"X", "B">>
sC  == <<"C">>
sD  == <<"D">>
sQ  == <<"Q">>

\* "B.1.1.529"
vB_1_1_529 == <<"B", ".", "1", ".", "1", ".", "5", "2", "9">>

\* "BA.2.86.1"
vBA_2_86_1 == <<"B", "A", ".", "2", ".", "8", "6", ".", "1">>

\* "JN.1.1.1"
vJN_1_1_1 == <<"J", "N", ".", "1", ".", "1", ".", "1">>

\* "B.1.1.529.2.86.1"
vB_1_1_529_2_86_1 == vB_1_1_529 \o <<".", "2", ".", "8", "6", ".", "1">>

E(k, v) == [key |-> k, val |-> v]

\* the entries alias tables are built from: the chained entries of the
\* shipped table, alias-valued and root entries, a recombinant list, keys
\* and values that differ by case only, a self-referential entry, values
\* with one group, with no group, and outside the grammar, a root key
\* that holds a designation, two entries that name each other (BA and JN),
\* an entry two generations above an alias
EntryPool ==
    { E(sBA, StrV(vB_1_1_529)),
      E(sJN, StrV(vBA_2_86_1)),
      E(sJN, StrV(vB_1_1_529_2_86_1)),
      E(<<"b">>, StrV(<<>>)),
      E(sXB, ListV(<< <<"X", "C", ".", "1", "*">>, <<"B", "A", ".", "2", "*">> >>)),
      E(sXB, StrV(<<"B", ".", "1", ".", "1", ".", "1">>)),
      E(<<"b", "a">>, StrV(<<"A", ".", "1", ".", "1", ".", "1">>)),
      E(sC, StrV(<<"b", ".", "1", ".", "1", ".", "5", "2", "9">>)),
      E(sC, StrV(<<"C", ".", "1", ".", "1", ".", "1">>)),
      E(sD, StrV(<<"B", ".", "1">>)),
      E(sD, StrV(<<"B", ".", "1", "*">>)),
      E(sQ, StrV(sB)),
      E(<<"j", "n">>, StrV(<<>>)),
      E(sA, StrV(vB_1_1_529)),
      E(sBA, StrV(vJN_1_1_1)),
      E(sQ, StrV(vBA_2_86_1 \o <<".", "1", ".", "1", ".", "1">>)) }

\* a dict holds each key once (keys are compared case-sensitively)
DistinctKeys(t) == \A i, j \in 1..Len(t) : i # j => t[i].key # t[j].key

Tables ==
    UNION { {t \in [1..n -> EntryPool] : DistinctKeys(t)} : n \in 0..MaxEntries }

LetterPool ==
    { sA, <<"a">>, sB, <<"b">>, sBA, <<"b", "a">>, sJN, <<"j", "n">>,
      sXB, <<"x", "b">>, sC, sD, sQ, <<"N">> }

\* the i-th suffix group of a drawn name
NameGroup(i) ==
    CASE i = 1 -> <<"5">>
      [] i = 2 -> <<"1">>
      [] i = 3 -> <<"2">>
      [] OTHER -> <<"0", "3">>

SuffixPool ==
    { [i \in 1..n |-> NameGroup(i)] : n \in 0..MaxNameGroups } \cup { << <<"1">> >> }

WellFormedNames == { l \o JoinDotted(g) : l \in LetterPool, g \in SuffixPool }

\* names outside the grammar, blank names, and names to be trimmed
OtherNames ==
    { <<>>, <<" ">>,
      <<" ", "j", "n", ".", "1", " ">>,
      <<"J", "N", ".", "1", ".", "5", ".", "C">>,
      <<"B", "A", ".", "1", "5", ".", "X">>,
      <<"B", ".", "1", ".", ".", "2">>,
      <<"J", "N", ".">>,
      <<".", "1">>,
      <<"J", " ", "N", ".", "1">>,
      <<"B", "A", ".", "5", "*">>,
      <<"5", ".", "1">>,
      <<"B", ".", "5", ".", "c">> }

\* two names that differ in case and in a leading zero
ZeroNames == { <<"b", ".", "0", "3">>, <<"B", ".", "3">> }

Names == WellFormedNames \cup ZeroNames \cup OtherNames

\* ------------------------------------------------------------ results

\* the value None
NoneV == [kind |-> "none", text |-> <<>>, items |-> <<>>]

NoResult ==
    [ok |-> FALSE, text |-> <<>>, chain |-> <<>>, rows |-> <<>>, val |-> NoneV,
     err |-> "none", site |-> "pending"]

\* a returned str, or a raised ValueError
Returned(r) ==
    [ok |-> r.ok, text |-> r.text, chain |-> <<>>, rows |-> <<>>, val |-> NoneV,
     err |-> r.err, site |-> r.site]

\* a returned OrderedDict
ReturnedChain(c) ==
    [ok |-> TRUE, text |-> <<>>, chain |-> c, rows |-> <<>>, val |-> NoneV,
     err |-> "none", site |-> "none"]

\* a returned list of (alias, text) rows
ReturnedRows(r) ==
    [ok |-> TRUE, text |-> <<>>, chain |-> <<>>, rows |-> r, val |-> NoneV,
     err |-> "none", site |-> "none"]

\* a returned alias value, or None
ReturnedValue(v) ==
    [ok |-> TRUE, text |-> <<>>, chain |-> <<>>, rows |-> <<>>, val |-> v,
     err |-> "none", site |-> "none"]

\* ------------------------------------------------------------ lookup

\* alias in alias_map (keys are compared as they are stored)
HasKey(alias, alias_map) == \E i \in 1..Len(alias_map) : alias_map[i].key = alias

\* lookup_alias: alias_map[alias], None on KeyError
lookup_alias(alias, alias_map) ==
    IF HasKey(alias, alias_map) THEN ValueOf(alias, alias_map) ELSE NoneV

\* ------------------------------------------------------------ reports

RECURSIVE WalkAll(_, _, _)

\* the outcome w of an iteration: loop again, return the chain, or raise
Continued(w, alias_map) ==
    CASE w.status = "next" -> WalkAll(w.current, w.chain, alias_map)
      [] w.status = "done" -> ReturnedChain(w.chain)
      [] OTHER -> Returned(Fail("BrokenChain", "no_alias_entry"))

\* the while loop of get_ancestral_dict (lines 344-366) run to its end
WalkAll(current_value, chain, alias_map) ==
    Continued(WalkStep(current_value, chain, alias_map), alias_map)

\* lines 341-366: the walk from the ancestor value a, or the error a
AncestryFrom(a, alias_map) ==
    IF a.ok THEN WalkAll(a.text, <<>>, alias_map) ELSE Returned(a)

\* get_ancestral_dict as one call
get_ancestral_dict(value, alias_map) ==
    AncestryFrom(AncestorValue(value, alias_map), alias_map)

\* ord(c)
Ord(c) ==
    CASE c = " " -> 32 [] c = "*" -> 42 [] c = "." -> 46
      [] c = "0" -> 48 [] c = "1" -> 49 [] c = "2" -> 50 [] c = "3" -> 51
      [] c = "5" -> 53 [] c = "6" -> 54 [] c = "8" -> 56 [] c = "9" -> 57
      [] c = "A" -> 65 [] c = "B" -> 66 [] c = "C" -> 67 [] c = "D" -> 68
      [] c = "J" -> 74 [] c = "N" -> 78 [] c = "Q" -> 81 [] c = "X" -> 88
      [] c = "a" -> 97 [] c = "b" -> 98 [] c = "c" -> 99 [] c = "j" -> 106
      [] c = "n" -> 110 [] c = "x" -> 120

\* a < b for two str
RECURSIVE StrLess(_, _)
StrLess(a, b) ==
    IF b = <<>> THEN FALSE
    ELSE IF a = <<>> THEN TRUE
    ELSE IF Head(a) = Head(b) THEN StrLess(Tail(a), Tail(b))
    ELSE Ord(Head(a)) < Ord(Head(b))

\* the i-th key comes before the j-th in the stable sort by item.upper()
SortsBefore(i, j, alias_map) ==
    \/ StrLess(Upper(alias_map[i].key), Upper(alias_map[j].key))
    \/ (Upper(alias_map[i].key) = Upper(alias_map[j].key) /\ i < j)

\* sorted(alias_map.keys(), key=lambda item: item.upper())
SortedKeys(alias_map) ==
    [n \in 1..Len(alias_map) |->
        alias_map[CHOOSE i \in 1..Len(alias_map) :
                      Cardinality({j \in 1..Len(alias_map) :
                                      SortsBefore(j, i, alias_map)}) = n - 1].key]

\* sep.join(parts)
RECURSIVE JoinWith(_, _)
JoinWith(sep, parts) ==
    IF parts = <<>> THEN <<>>
    ELSE IF Len(parts) = 1 THEN Head(parts)
    ELSE Head(parts) \o sep \o JoinWith(sep, Tail(parts))

\* " , "
Delimiter == <<" ", ",", " ">>

\* HasParent without the test of line 372: the terminal entry is kept
HasParent_Any(e) == TRUE

\* `if parent`: the entry holds a parent that is neither None nor ""
HasParent(e) == ~e.none /\ e.parent # <<>>

\* f"{alias} = {parent}"
Segment(e) == e.key \o <<" ", "=", " ">> \o e.parent

\* the list parts of _format_ancestry_chain
ChainParts(ancestry) ==
    [i \in 1..Len(SelectSeq(ancestry, HasParent)) |->
        Segment(SelectSeq(ancestry, HasParent)[i])]

\* _format_ancestry_chain
format_ancestry_chain(ancestry) == JoinWith(Delimiter, ChainParts(ancestry))

Row(alias, formatted) == [alias |-> alias, text |-> formatted]

\* RowAdded without the test of line 392: a row is added for every chain
RowAdded_KeepEmpty(alias, formatted, rows) == Append(rows, Row(alias, formatted))

\* lines 392-393
RowAdded(alias, formatted, rows) ==
    IF formatted # <<>> THEN Append(rows, Row(alias, formatted)) ELSE rows

RECURSIVE ReportFrom(_, _, _)

\* lines 390-393: a is what get_ancestral_dict(alias, alias_map) returned
\* or raised
ReportRow(alias, a, rest, rows, alias_map) ==
    IF ~a.ok THEN a
    ELSE ReportFrom(rest, RowAdded(alias, format_ancestry_chain(a.chain), rows),
                    alias_map)

\* lines 385-395: the for loop over the remaining sorted keys
ReportFrom(keys, rows, alias_map) ==
    IF keys = <<>> THEN ReturnedRows(rows)
    ELSE IF ~IsNonEmptyStr(ValueOf(Head(keys), alias_map))
    THEN ReportFrom(Tail(keys), rows, alias_map)
    ELSE ReportRow(Head(keys), get_ancestral_dict(Head(keys), alias_map),
                   Tail(keys), rows, alias_map)

\* generate_alias_ancestry_report
generate_alias_ancestry_report(alias_map) ==
    ReportFrom(SortedKeys(alias_map), <<>>, alias_map)

\* line 416: the entry is a recombinant with a non-empty component list
IsRecombinant(alias, v) ==
    StartsWithX(Upper(alias)) /\ v.kind = "list" /\ v.items # <<>>

\* lines 414-422: the for loop over the remaining sorted keys (the items of
\* a list are all str, so line 419 raises for no table)
RECURSIVE RecombinantFrom(_, _, _)
RecombinantFrom(keys, rows, alias_map) ==
    IF keys = <<>> THEN ReturnedRows(rows)
    ELSE IF ~IsRecombinant(Head(keys), ValueOf(Head(keys), alias_map))
    THEN RecombinantFrom(Tail(keys), rows, alias_map)
    ELSE RecombinantFrom(
             Tail(keys),
             Append(rows, Row(Head(keys),
                              JoinWith(Delimiter,
                                       ValueOf(Head(keys), alias_map).items))),
             alias_map)

\* generate_recombinant_report
generate_recombinant_report(alias_map) ==
    RecombinantFrom(SortedKeys(alias_map), <<>>, alias_map)

\* ------------------------------------------------------------ state machine

VARIABLES
    alias_map,      \* the loaded alias table
    value,          \* the name passed to the call in progress
    pc,             \* "idle", "walk" (inside the while loop), "done"
    op,             \* the operation called: "none", "lookup", "unroll",
                    \* "ancestry", "report", "recombinants"
    result,         \* what the call returned or raised
    ancestry,       \* get_ancestral_dict's local OrderedDict
    current_value,  \* get_ancestral_dict's local current_value
    iterations      \* completed iterations of the while loop

vars == <<alias_map, value, pc, op, result, ancestry, current_value, iterations>>

Init ==
    /\ alias_map \in Tables
    /\ value = <<>>
    /\ pc = "idle"
    /\ op = "none"
    /\ result = NoResult
    /\ ancestry = <<>>
    /\ current_value = <<>>
    /\ iterations = 0

\* a call of unroll_pango_name(value, alias_map), for any name
Unroll ==
    /\ pc = "idle"
    /\ pc' = "done"
    /\ op' = "unroll"
    /\ \E v \in Names :
           /\ value' = v
           /\ result' = Returned(unroll_pango_name(v, alias_map))
    /\ UNCHANGED <<alias_map, ancestry, current_value, iterations>>

\* lines 305-342: the walk starts at a, or the call fails with a
Started(a) ==
    /\ pc' = IF a.ok THEN "walk" ELSE "done"
    /\ current_value' = IF a.ok THEN a.text ELSE current_value
    /\ result' = IF a.ok THEN NoResult ELSE Returned(a)

\* a call of get_ancestral_dict(value, alias_map), up to the while loop
AncestryStart ==
    /\ pc = "idle"
    /\ op' = "ancestry"
    /\ \E v \in Names :
           /\ value' = v
           /\ Started(AncestorValue(v, alias_map))
    /\ ancestry' = <<>>
    /\ UNCHANGED <<alias_map, iterations>>

\* the effect w of one iteration on the locals and on the call
Stepped(w) ==
    /\ ancestry' = w.chain
    /\ current_value' = w.current
    /\ pc' = IF w.status = "next" THEN "walk" ELSE "done"
    /\ result' = CASE w.status = "next" -> result
                   [] w.status = "done" -> ReturnedChain(w.chain)
                   [] OTHER -> Returned(Fail("BrokenChain", "no_alias_entry"))

\* one iteration of the while loop of get_ancestral_dict
AncestryStep ==
    /\ pc = "walk"
    /\ Stepped(WalkStep(current_value, ancestry, alias_map))
    /\ iterations' = iterations + 1
    /\ UNCHANGED <<alias_map, value, op>>

\* Lookup done with alias_map.setdefault(alias, ""): a missing alias is
\* entered into the table
Lookup_SetDefault ==
    /\ pc = "idle"
    /\ pc' = "done"
    /\ op' = "lookup"
    /\ \E v \in Names :
           /\ value' = v
           /\ result' = ReturnedValue(lookup_alias(v, alias_map))
           /\ alias_map' = IF HasKey(v, alias_map) THEN alias_map
                           ELSE Append(alias_map, E(v, StrV(<<>>)))
    /\ UNCHANGED <<ancestry, current_value, iterations>>

\* a call of lookup_alias(value, alias_map), for any name
Lookup ==
    /\ pc = "idle"
    /\ pc' = "done"
    /\ op' = "lookup"
    /\ \E v \in Names :
           /\ value' = v
           /\ result' = ReturnedValue(lookup_alias(v, alias_map))
    /\ UNCHANGED <<alias_map, ancestry, current_value, iterations>>

\* a call of generate_alias_ancestry_report(alias_map)
AncestryReport ==
    /\ pc = "idle"
    /\ pc' = "done"
    /\ op' = "report"
    /\ result' = generate_alias_ancestry_report(alias_map)
    /\ UNCHANGED <<alias_map, value, ancestry, current_value, iterations>>

\* a call of generate_recombinant_report(alias_map)
RecombinantReport ==
    /\ pc = "idle"
    /\ pc' = "done"
    /\ op' = "recombinants"
    /\ result' = generate_recombinant_report(alias_map)
    /\ UNCHANGED <<alias_map, value, ancestry, current_value, iterations>>

\* the caller takes the result; the locals of the call are gone
Return ==
    /\ pc = "done"
    /\ pc' = "idle"
    /\ op' = "none"
    /\ result' = NoResult
    /\ ancestry' = <<>>
    /\ current_value' = <<>>
    /\ iterations' = 0
    /\ value' = <<>>
    /\ UNCHANGED alias_map

Next ==
    \/ Lookup
    \/ Unroll
    \/ AncestryStart
    \/ AncestryStep
    \/ AncestryReport
    \/ RecombinantReport
    \/ Return

Spec == Init /\ [][Next]_vars

\* ------------------------------------------------------------ properties

\* T[k] == v
Holds(k, v) ==
    \E i \in 1..Len(alias_map) : alias_map[i].key = k /\ alias_map[i].val = v

\* k is a key of T and no key before it equals it ignoring case
IsFirstMatch(k) ==
    \E i \in 1..Len(alias_map) :
        /\ alias_map[i].key = k
        /\ \A j \in 1..(i - 1) : Upper(alias_map[j].key) # Upper(k)

\* some key of T equals l ignoring case
KeyPresent(l) == \E i \in 1..Len(alias_map) : Upper(alias_map[i].key) = Upper(l)

\* the two names differ at most in the case of their letters
SameUpToCase(x, y) ==
    /\ Len(x) = Len(y)
    /\ \A i \in 1..Len(x) : UpperChar(x[i]) = UpperChar(y[i])

UnrollDone == pc = "done" /\ op = "unroll"

AncestryDone == pc = "done" /\ op = "ancestry"

\* "JN.1"
nJN_1 == <<"J", "N", ".", "1">>

\* C1 (as stated): with T["JN"] = "BA.2.86.1" and T["BA"] = "B.1.1.529",
\* unroll("JN.1", T) returns "B.1.1.529.2.86.1.1" (multi-hop unrolling).
C1_MultiHop ==
    (/\ UnrollDone
     /\ value = nJN_1
     /\ Holds(sJN, StrV(vBA_2_86_1))
     /\ Holds(sBA, StrV(vB_1_1_529)))
    => (result.ok /\ result.text = vB_1_1_529_2_86_1 \o <<".", "1">>)

\* C1 (amended): unroll makes exactly one table lookup.  When JN is the
\* first key equal to JN ignoring case, unroll("JN.1", T) is the stored
\* value of JN followed by ".1": "BA.2.86.1.1" for T["JN"] = "BA.2.86.1"
\* (whatever T["BA"] is), "B.1.1.529.2.86.1.1" for
\* T["JN"] = "B.1.1.529.2.86.1".
C1_SingleHop ==
    (UnrollDone /\ value = nJN_1) =>
        \A v \in {vBA_2_86_1, vB_1_1_529_2_86_1} :
            (Holds(sJN, StrV(v)) /\ IsFirstMatch(sJN))
            => (result.ok /\ result.text = v \o <<".", "1">>)

C1_Witness ==
    /\ UnrollDone
    /\ value = nJN_1
    /\ Holds(sJN, StrV(vBA_2_86_1))
    /\ Holds(sBA, StrV(vB_1_1_529))
    /\ result.ok
    /\ result.text = vBA_2_86_1 \o <<".", "1">>

\* the names made of the letters l and at most MaxSuffixGroups drawn groups
ShortNames(l) == { <<l \o JoinDotted(g), g>> : g \in {h \in SuffixPool : Len(h) <= MaxSuffixGroups} }

\* C2: for every table, a name whose letters are A or B (in either case)
\* with at most 3 suffix groups unrolls to the upper-cased letters followed
\* by its own suffix groups; unroll("A") = "A" and unroll("B") = "B".
C2_UniversalRoots ==
    UnrollDone =>
        \A l \in {sA, <<"a">>, sB, <<"b">>} :
            \A n \in ShortNames(l) :
                value = n[1]
                => (result.ok /\ result.text = Upper(l) \o JoinDotted(n[2]))

\* a root name is unrolled although the table maps its letters to a
\* designation and holds no entry for the other root
C2_Witness ==
    /\ UnrollDone
    /\ value = <<"a", ".", "5", ".", "1">>
    /\ Holds(sA, StrV(vB_1_1_529))
    /\ result.ok
    /\ result.text = <<"A", ".", "5", ".", "1">>

\* C3: two names that differ only in the case of their letters unroll to
\* the same string, or fail with the same error kind, for every table, also
\* one holding keys that differ only by case.
C3_CaseInsensitive ==
    UnrollDone =>
        \A y \in Names :
            SameUpToCase(value, y) =>
                Returned(unroll_pango_name(y, alias_map)) = result

C3_Witness ==
    /\ UnrollDone
    /\ value = <<"b", "a", ".", "5">>
    /\ Holds(sBA, StrV(vB_1_1_529))
    /\ Holds(<<"b", "a">>, StrV(<<"A", ".", "1", ".", "1", ".", "1">>))
    /\ result.ok

\* names with more than MaxSuffixGroups suffix groups
TooLongNames ==
    { l \o JoinDotted(g) :
        l \in LetterPool, g \in {h \in SuffixPool : Len(h) > MaxSuffixGroups} }

\* names with a suffix group that is not a digit run
NonDigitNames ==
    { <<"J", "N", ".", "1", ".", "5", ".", "C">>,
      <<"B", "A", ".", "1", "5", ".", "X">>,
      <<"B", "A", ".", "5", "*">>,
      <<"B", ".", "5", ".", "c">> }

\* C4: for every table, unroll fails with InvalidFormat for a name with
\* more than 3 suffix groups or with a non-digit suffix group, whatever its
\* letters (A and B included).
C4_InvalidSuffix ==
    (UnrollDone /\ value \in TooLongNames \cup NonDigitNames)
    => (~result.ok /\ result.err = "InvalidFormat")

\* "B.5.1.2.03": a universal root with four groups
C4_Witness ==
    /\ UnrollDone
    /\ value = sB \o JoinDotted([i \in 1..(MaxSuffixGroups + 1) |-> NameGroup(i)])
    /\ ~result.ok
    /\ result.site = "too_many_groups"

\* letters that are neither a universal root nor in the X namespace
IsOrdinary(l) == Upper(l) \notin {sA, sB} /\ Upper(l)[1] # "X"

\* C5: for every table, a name without suffix groups whose letters are
\* neither A, B nor X-prefixed fails with InvalidFormat (a suffix group is
\* needed), whether or not its letters are a key of the table.
C5_NeedsSuffix ==
    UnrollDone =>
        \A l \in {k \in LetterPool : IsOrdinary(k)} :
            value = l
            => (/\ ~result.ok
                /\ result.err = "InvalidFormat"
                /\ result.site = "needs_suffix")

\* the bare name is no key of the table
C5_Witness ==
    /\ UnrollDone
    /\ value = <<"N">>
    /\ ~KeyPresent(<<"N">>)
    /\ alias_map # <<>>
    /\ result.err = "InvalidFormat"

\* C6: a name in the X namespace with at most 3 suffix groups unrolls to
\* its upper-cased letters and own suffix groups when its letters are a key
\* of the table ignoring case, whatever the entry's value, and fails with
\* UnknownAlias otherwise.
C6_Recombinant ==
    UnrollDone =>
        \A l \in {k \in LetterPool : Upper(k)[1] = "X"} :
            \A n \in ShortNames(l) :
                value = n[1]
                => IF KeyPresent(l)
                   THEN result.ok /\ result.text = Upper(l) \o JoinDotted(n[2])
                   ELSE ~result.ok /\ result.err = "UnknownAlias"

\* the matching entry holds a designation, which is not used
C6_Witness ==
    /\ UnrollDone
    /\ value = <<"x", "b", ".", "5">>
    /\ Holds(sXB, StrV(<<"B", ".", "1", ".", "1", ".", "1">>))
    /\ result.ok
    /\ result.text = <<"X", "B", ".", "5">>

\* the value of the first key equal to l ignoring case
FirstMatchValue(l) ==
    alias_map[CHOOSE i \in 1..Len(alias_map) :
                  /\ Upper(alias_map[i].key) = Upper(l)
                  /\ \A j \in 1..(i - 1) : Upper(alias_map[j].key) # Upper(l)].val

\* the number of suffix groups of a rendered designation
CountDots(t) == Cardinality({i \in 1..Len(t) : t[i] = "."})

\* the table value v is no target an ordinary alias resolves to
CorruptTarget(v) ==
    \/ v.kind = "list"
    \/ v.text = <<>>
    \/ ~PangoMatch(v.text)
    \/ CountDots(v.text) % GroupSize # 0

\* C7: an ordinary alias with 1 to 3 suffix groups whose letters are a key
\* of the table fails when the value is empty, a list, no designation, or a
\* designation whose group count is not a multiple of 3; otherwise the
\* result is the value, its letters upper-cased, followed by the name's
\* groups, so its group count is congruent to the name's modulo 3.
C7_OrdinaryAlias ==
    UnrollDone =>
        \A l \in {k \in LetterPool : IsOrdinary(k)} :
            \A n \in {m \in ShortNames(l) : m[2] # <<>>} :
                (value = n[1] /\ KeyPresent(l))
                => IF CorruptTarget(FirstMatchValue(l))
                   THEN ~result.ok
                   ELSE /\ result.ok
                        /\ result.text =
                               normalize_designation(FirstMatchValue(l).text).text
                                   \o JoinDotted(n[2])
                        /\ CountDots(result.text) % GroupSize
                               = Len(n[2]) % GroupSize

\* a stored designation with one group is refused
C7_Witness ==
    /\ UnrollDone
    /\ value = <<"D", ".", "5", ".", "1">>
    /\ Holds(sD, StrV(<<"B", ".", "1">>))
    /\ ~result.ok
    /\ result.site = "not_multiple_of_three"

\* every str value of the table is empty or matches the designation grammar
GrammarTable ==
    \A i \in 1..Len(alias_map) :
        alias_map[i].val.kind = "str" =>
            (alias_map[i].val.text = <<>> \/ PangoMatch(alias_map[i].val.text))

\* the positions of the chain's entries without ancestor
Terminals(chain) == {i \in 1..Len(chain) : chain[i].none}

\* C8: every chain ancestry returns, for a table whose str values match the
\* designation grammar, has exactly one entry without ancestor, which is
\* the last entry, and holds no key twice.
C8_OneTerminal ==
    (AncestryDone /\ result.ok /\ GrammarTable)
    => /\ Cardinality(Terminals(result.chain)) = 1
       /\ result.chain[Len(result.chain)].none
       /\ \A i, j \in 1..Len(result.chain) :
              i # j => result.chain[i].key # result.chain[j].key

\* k is a root alias: A or B, a key in the X namespace, or a key whose
\* value is the empty string
IsRootAlias(k) ==
    \/ k \in {sA, sB}
    \/ \E i \in 1..Len(alias_map) :
           /\ alias_map[i].key = k
           /\ (Upper(k)[1] = "X" \/ alias_map[i].val = StrV(<<>>))

\* C9: the entry without ancestor of every returned chain is keyed by a
\* root alias, never by an ordinary alias that holds a parent designation.
C9_TerminalIsRoot ==
    (AncestryDone /\ result.ok)
    => \A i \in Terminals(result.chain) : IsRootAlias(result.chain[i].key)

\* "BA.5.1"
nBA_5_1 == <<"B", "A", ".", "5", ".", "1">>

\* the chain [BA -> "B.1.1.529", B -> none]
ChainBA == <<Entry(sBA, vB_1_1_529), RootEntry(sB)>>

\* C10 (as stated): with T["BA"] = "B.1.1.529", ancestry("BA.5.1", T) is
\* the chain [BA -> "B.1.1.529", B -> none], whatever else T holds and in
\* whatever order.
C10_ChainOfBA ==
    (AncestryDone /\ value = nBA_5_1 /\ Holds(sBA, StrV(vB_1_1_529)))
    => (result.ok /\ result.chain = ChainBA)

\* k is the first key whose non-empty str value is v ignoring the case of
\* its letters
IsFirstWithValue(k, v) ==
    \E i \in 1..Len(alias_map) :
        /\ alias_map[i].key = k
        /\ \A j \in 1..(i - 1) :
               ~(alias_map[j].val.kind = "str" /\ Upper(alias_map[j].val.text) = v)

\* no str value of the table is v ignoring the case of its letters
NoValue(v) ==
    \A i \in 1..Len(alias_map) :
        ~(alias_map[i].val.kind = "str" /\ Upper(alias_map[i].val.text) = v)

\* C10 (amended): with T["BA"] = "B.1.1.529", ancestry("BA.5.1", T) is the
\* chain [BA -> "B.1.1.529", B -> none] provided that BA is the first key
\* equal to BA ignoring case and the first key whose value is "B.1.1.529"
\* ignoring case, that no value is "B" ignoring case, and that the first
\* key equal to B ignoring case, if there is one, is B.
C10_ChainOfFirstBA ==
    (/\ AncestryDone
     /\ value = nBA_5_1
     /\ Holds(sBA, StrV(vB_1_1_529))
     /\ IsFirstMatch(sBA)
     /\ IsFirstWithValue(sBA, vB_1_1_529)
     /\ NoValue(sB)
     /\ (KeyPresent(sB) => IsFirstMatch(sB)))
    => (result.ok /\ result.chain = ChainBA)

\* BA is not the first entry of the table
C10_Witness ==
    /\ AncestryDone
    /\ value = nBA_5_1
    /\ Len(alias_map) = 2
    /\ alias_map[2] = E(sBA, StrV(vB_1_1_529))
    /\ result.ok
    /\ result.chain = ChainBA

\* reverse lookup finds no alias for the canonical value v
NoAlias(v) == ~find_alias_for_value(v, alias_map).found

\* the canonical value v without its last GroupSize suffix groups
ParentPrefix(v) ==
    Render(split_pango_name(v).letters,
           SubSeq(split_pango_name(v).suffix, 1,
                  Len(split_pango_name(v).suffix) - GroupSize))

\* the walk cannot go on from v: v, or its parent prefix, has no alias
Broken(v) ==
    \/ NoAlias(v)
    \/ (CountDots(v) >= GroupSize /\ NoAlias(ParentPrefix(v)))

\* the letters of the name are neither A nor B nor, ignoring case, a key
UnknownLetters(p) ==
    p.ok /\ p.letters \notin RootLetters /\ ~KeyPresent(p.letters)

\* the error raised
Raised(r, kinds) == ~r.ok /\ r.err \in kinds /\ r.chain = <<>>

\* C11: an iteration of the ancestry walk whose current canonical value, or
\* whose parent prefix (the value without its last 3 groups), has no alias
\* under reverse lookup ends the call with BrokenChain and no chain, however
\* many entries were recorded; a call with a name that has a non-digit
\* suffix group, or whose letters are no key and not A or B, ends with an
\* error and no chain.
C11_BrokenChain ==
    [][/\ (pc = "walk" /\ Broken(current_value))
           => (pc' = "done" /\ Raised(result', {"BrokenChain"}))
       /\ (pc = "idle" /\ op' = "ancestry" /\ value' \in NonDigitNames)
           => (pc' = "done" /\ Raised(result', {"InvalidFormat"}))
       /\ (pc = "idle" /\ op' = "ancestry"
             /\ UnknownLetters(split_pango_name(Strip(value'))))
           => (pc' = "done" /\ Raised(result', {"UnknownAlias", "InvalidFormat"}))
      ]_vars

\* the walk fails at the second generation, after one entry was recorded
C11_Witness ==
    /\ AncestryDone
    /\ value = <<"Q", ".", "5">>
    /\ ancestry = <<Entry(sQ, vJN_1_1_1)>>
    /\ current_value = sBA
    /\ ~result.ok
    /\ result.err = "BrokenChain"
    /\ result.chain = <<>>

\* the suffix group count of the ancestor value the walk of the call starts at
StartGroups == CountDots(AncestorValue(value, alias_map).text)

\* C12: the ancestry walk ends, with a chain or an error, for every name
\* and every table, also one whose entries name each other: inside the
\* loop the current value has lost exactly 3 suffix groups per completed
\* iteration, and the loop never runs more than floor(n/3)+1 times, n being
\* the suffix group count of the starting ancestor value.
C12_WalkTerminates ==
    (op = "ancestry" /\ (pc = "walk" \/ iterations > 0))
    => /\ iterations <= (StartGroups \div GroupSize) + 1
       /\ (pc = "walk"
             => CountDots(current_value) + GroupSize * iterations = StartGroups)

\* BA and JN name each other; the walk ends after floor(3/3)+1 iterations
C12_Witness ==
    /\ AncestryDone
    /\ alias_map = <<E(sBA, StrV(vJN_1_1_1)), E(sJN, StrV(vBA_2_86_1))>>
    /\ value = nJN_1
    /\ iterations = 2
    /\ result.ok
    /\ result.chain = <<Entry(sJN, vBA_2_86_1), RootEntry(sBA)>>

\* the entries whose value is a non-empty str equal to the canonical value v
\* once its letters are upper-cased
StrMatches(v) ==
    {i \in 1..Len(alias_map) :
        /\ alias_map[i].val.kind = "str"
        /\ alias_map[i].val.text # <<>>
        /\ Upper(alias_map[i].val.text) = v}

\* the entries whose key equals the letters l ignoring case
KeyMatches(l) == {i \in 1..Len(alias_map) : Upper(alias_map[i].key) = l}

\* the key of the first of the entries s
KeyOfFirst(s) == alias_map[CHOOSE i \in s : \A j \in s : i <= j].key

\* the key reverse lookup of the canonical value v is to return
ReverseOf(v) ==
    IF StrMatches(v) # {} THEN [found |-> TRUE, key |-> KeyOfFirst(StrMatches(v))]
    ELSE IF CountDots(v) > 0 THEN NoKey
    ELSE IF KeyMatches(v) # {} THEN [found |-> TRUE, key |-> KeyOfFirst(KeyMatches(v))]
    ELSE IF v \in {sA, sB} THEN [found |-> TRUE, key |-> v]
    ELSE NoKey

\* C13: reverse lookup of the canonical value an iteration of the walk
\* starts from, or ended the walk at, returns the first key, in table order, whose non-empty str
\* value normalizes to that value; when there is none and the value has
\* no suffix group, the first key equal to its letters ignoring case, and
\* without such a key the literal A or B; a value with suffix groups and
\* no matching str value has no alias.
C13_ReverseLookup ==
    (pc = "walk" \/ (AncestryDone /\ iterations > 0)) =>
        find_alias_for_value(current_value, alias_map) = ReverseOf(current_value)

\* the bare prefix B is mapped to the key b, not to the literal B
C13_Witness ==
    /\ AncestryDone
    /\ value = nBA_5_1
    /\ alias_map = <<E(<<"b">>, StrV(<<>>)), E(sBA, StrV(vB_1_1_529))>>
    /\ result.ok
    /\ result.chain =
           <<Entry(sBA, <<"b">> \o SubSeq(vB_1_1_529, 2, Len(vB_1_1_529))),
             RootEntry(<<"b">>)>>

ReportDone == pc = "done" /\ op = "report"

\* the rows of the report labelled k
RowsOf(k) == {j \in 1..Len(result.rows) : result.rows[j].alias = k}

\* the position of the key k in the table
PositionOf(k) == CHOOSE i \in 1..Len(alias_map) : alias_map[i].key = k

\* the rows are ordered by their labels ignoring case
OrderedIgnoringCase(rows) ==
    \A i, j \in 1..Len(rows) :
        i < j => ~StrLess(Upper(rows[j].alias), Upper(rows[i].alias))

\* C14 (as stated): the returned ancestry report holds exactly one row for
\* every key whose value is a non-empty str, labelled with that key, and no
\* other row; the rows are ordered by key ignoring case.
C14_RowPerStringKey ==
    (ReportDone /\ result.ok)
    => /\ \A i \in 1..Len(alias_map) :
              Cardinality(RowsOf(alias_map[i].key))
                  = IF IsNonEmptyStr(alias_map[i].val) THEN 1 ELSE 0
       /\ \A j \in 1..Len(result.rows) : KeyPresent(result.rows[j].alias)
       /\ OrderedIgnoringCase(result.rows)

\* the ancestry of the key k fails
AncestryFails(k) == ~get_ancestral_dict(k, alias_map).ok

\* the chain of the key k holds an entry with a parent
HasAncestor(k) ==
    \E i \in 1..Len(get_ancestral_dict(k, alias_map).chain) :
        HasParent(get_ancestral_dict(k, alias_map).chain[i])

\* the keys whose value is a non-empty str
StringKeys ==
    {alias_map[i].key : i \in {n \in 1..Len(alias_map) : IsNonEmptyStr(alias_map[n].val)}}

\* C14 (amended): the ancestry report raises, and returns no rows, when
\* the ancestry of some key holding a non-empty str fails.  Otherwise it
\* holds exactly one row for every key whose value is a non-empty str and
\* whose chain has an entry with a parent, labelled with that key, and no
\* row for any other key (empty or list value, or a chain that is only the
\* terminal entry); the rows are ordered by key ignoring case, keys equal
\* ignoring case in table order.
C14_RowPerAncestor ==
    ReportDone =>
        IF \E k \in StringKeys : AncestryFails(k)
        THEN ~result.ok /\ result.rows = <<>>
        ELSE /\ result.ok
             /\ \A i \in 1..Len(alias_map) :
                    Cardinality(RowsOf(alias_map[i].key))
                        = IF /\ alias_map[i].key \in StringKeys
                             /\ HasAncestor(alias_map[i].key)
                          THEN 1 ELSE 0
             /\ \A j \in 1..Len(result.rows) : HasKey(result.rows[j].alias, alias_map)
             /\ OrderedIgnoringCase(result.rows)
             /\ \A i, j \in 1..Len(result.rows) :
                    (i < j /\ Upper(result.rows[i].alias) = Upper(result.rows[j].alias))
                    => PositionOf(result.rows[i].alias) < PositionOf(result.rows[j].alias)

\* XB holds a designation and is a root of its own: it gets no row
C14_Witness ==
    /\ ReportDone
    /\ alias_map = <<E(sXB, StrV(<<"B", ".", "1", ".", "1", ".", "1">>)),
                     E(sBA, StrV(vB_1_1_529))>>
    /\ result.ok
    /\ result.rows = <<Row(sBA, sBA \o <<" ", "=", " ">> \o vB_1_1_529)>>

\* the chain ancestry returns for the key k
ChainOf(k) == get_ancestral_dict(k, alias_map).chain

\* the entries of the chain c written "key = parent" and joined by " , "
Written(c) == JoinWith(Delimiter, [i \in 1..Len(c) |-> Segment(c[i])])

\* the number of segments of a formatted text
Segments(text) == Cardinality({i \in 1..Len(text) : text[i] = ","}) + 1

\* the text t starts with "k = "
StartsWithKey(t, k) ==
    /\ Len(t) >= Len(k) + 3
    /\ SubSeq(t, 1, Len(k) + 3) = k \o <<" ", "=", " ">>

\* C15 (as stated): the text of the report row of the key k is the chain
\* of k without its last entry, written "key = parent" in walk order and
\* joined by " , "; it starts with "k = " and has one segment fewer than
\* the chain has entries.
C15_RowText ==
    (ReportDone /\ result.ok) =>
        \A j \in 1..Len(result.rows) :
            /\ result.rows[j].text =
                   Written(SubSeq(ChainOf(result.rows[j].alias), 1,
                                  Len(ChainOf(result.rows[j].alias)) - 1))
            /\ StartsWithKey(result.rows[j].text, result.rows[j].alias)
            /\ Segments(result.rows[j].text)
                   = Len(ChainOf(result.rows[j].alias)) - 1

\* the entries of the chain c that are not terminal
NonTerminal(e) == ~e.none

\* k is the key both lookups of ancestry(k) return: the first key equal to
\* k ignoring case and the first key holding its value
IsOwnAlias(k) ==
    /\ IsFirstMatch(k)
    /\ IsFirstWithValue(k, Upper(ValueOf(k, alias_map).text))

\* C15 (amended): the text of the report row of the key k is the entries
\* of the chain of k that have a parent, written "key = parent" in walk
\* order and joined by " , "; it has as many segments as the chain has
\* entries that are not terminal (one fewer than the chain has entries
\* only when the chain ends with a terminal entry), and it starts with
\* "k = " when k is the first key equal to k ignoring case and the first
\* key holding k's value.
C15_RowTextOfChain ==
    (ReportDone /\ result.ok) =>
        \A j \in 1..Len(result.rows) :
            /\ result.rows[j].text =
                   Written(SelectSeq(ChainOf(result.rows[j].alias), NonTerminal))
            /\ Segments(result.rows[j].text)
                   = Len(ChainOf(result.rows[j].alias))
                         - Cardinality(Terminals(ChainOf(result.rows[j].alias)))
            /\ IsOwnAlias(result.rows[j].alias)
                   => StartsWithKey(result.rows[j].text, result.rows[j].alias)

\* the row of BA starts with the key C, which holds BA's value and comes
\* first in the table
C15_Witness ==
    /\ ReportDone
    /\ alias_map = <<E(sC, StrV(<<"b", ".", "1", ".", "1", ".", "5", "2", "9">>)),
                     E(sBA, StrV(vB_1_1_529))>>
    /\ result.ok
    /\ result.rows = <<Row(sBA, sC \o <<" ", "=", " ">> \o vB_1_1_529),
                       Row(sC, sC \o <<" ", "=", " ">> \o vB_1_1_529)>>

\* C16: no step of a lookup, unroll, ancestry or report call, whether the
\* call returns or raises, changes the alias table: its keys, its values
\* and its key order stay what they were.
C16_TableUnchanged == [][alias_map' = alias_map]_vars

\* the report raised on a table whose only entry has no parent entry, and
\* the table is as it was
C16_Witness ==
    /\ ReportDone
    /\ ~result.ok
    /\ result.err = "BrokenChain"
    /\ alias_map = <<E(sJN, StrV(vBA_2_86_1))>>

\* the designation d with a zero put before its last suffix group
Padded(d) ==
    IF \E i \in 1..Len(d) : d[i] = "."
    THEN SubSeq(d, 1, (CHOOSE i \in 1..Len(d) :
                           d[i] = "." /\ \A j \in (i + 1)..Len(d) : d[j] # "."))
             \o <<"0">>
             \o SubSeq(d, (CHOOSE i \in 1..Len(d) :
                               d[i] = "." /\ \A j \in (i + 1)..Len(d) : d[j] # ".") + 1,
                       Len(d))
    ELSE d

\* the parse p of the designation d renders to d with its letters
\* upper-cased, and parses again to p; its groups are the digit runs of d
ExactParse(d, p) ==
    /\ p.ok
    /\ Render(p.letters, p.suffix) = Upper(d)
    /\ split_pango_name(Render(p.letters, p.suffix)) = p
    /\ p.letters = Upper(p.letters)
    /\ Len(p.suffix) = CountDots(d)
    /\ \A i \in 1..Len(p.suffix) :
           p.suffix[i] # <<>> /\ \A j \in 1..Len(p.suffix[i]) : IsDigit(p.suffix[i][j])

\* C17: for every name d of the grammar the call parses,
\* parse(render(parse(d))) = parse(d); the rendered form is d with its
\* letters upper-cased and every suffix group in place with its exact digits
\* (a leading zero is kept); two designations have the same normal form
\* exactly when they are equal up to the case of their letters.  (The
\* normal form does not read the table: every name is parsed, and compared
\* with every other name, in the calls made with the empty table.)
C17_Normalization ==
    (UnrollDone /\ alias_map = <<>> /\ PangoMatch(value)) =>
        /\ ExactParse(value, split_pango_name(value))
        /\ \A y \in Names \cup {Padded(value)} :
               PangoMatch(y) =>
                   ((normalize_designation(y) = normalize_designation(value))
                        <=> SameUpToCase(value, y))

\* "b.03" is unrolled to "B.03", not to "B.3"
C17_Witness ==
    /\ UnrollDone
    /\ value = <<"b", ".", "0", "3">>
    /\ result.ok
    /\ result.text = <<"B", ".", "0", "3">>
    /\ alias_map = <<>>
    /\ normalize_designation(value) # normalize_designation(<<"B", ".", "3">>)

\* the pairs <<l, name>> of ordinary letters l and a name made of l and
\* 1 to MaxSuffixGroups drawn groups
SuffixedNames ==
    { <<l, l \o JoinDotted(g)>> :
        l \in {k \in LetterPool : IsOrdinary(k)},
        g \in {h \in SuffixPool : Len(h) \in 1..MaxSuffixGroups} }

\* C18 (as stated): for every ordinary alias key k for which ancestry(k, T)
\* succeeds, ancestry(k.s, T) succeeds with the same chain, for every
\* suffix s of 1 to 3 groups.
C18_SuffixIndependent ==
    AncestryDone =>
        \A n \in SuffixedNames :
            (/\ value = n[2]
             /\ HasKey(n[1], alias_map)
             /\ get_ancestral_dict(n[1], alias_map).ok)
            => (result.ok /\ result.chain = get_ancestral_dict(n[1], alias_map).chain)

\* the stored value the lookups of the letters l end at has a suffix group
\* count that is a multiple of GroupSize
WholeGenerations(l) == CountDots(FirstMatchValue(l).text) % GroupSize = 0

\* C18 (amended): for every ordinary alias key k and every suffix s of 1 to
\* 3 groups, ancestry(k.s, T) succeeds exactly when ancestry(k, T) succeeds
\* and the stored value of k has a multiple of 3 suffix groups, and then it
\* returns the same chain; when ancestry(k, T) succeeds on a value whose
\* group count is no multiple of 3, ancestry(k.s, T) fails with
\* InvalidFormat.
C18_SuffixIndependentOfWhole ==
    AncestryDone =>
        \A n \in SuffixedNames :
            (value = n[2] /\ HasKey(n[1], alias_map))
            => IF /\ get_ancestral_dict(n[1], alias_map).ok
                  /\ WholeGenerations(n[1])
               THEN result = get_ancestral_dict(n[1], alias_map)
               ELSE /\ ~result.ok
                    /\ get_ancestral_dict(n[1], alias_map).ok
                           => result.err = "InvalidFormat"

\* ancestry of "D" succeeds on the value "B.1", ancestry of "D.5.1" does not
C18_Witness ==
    /\ AncestryDone
    /\ value = <<"D", ".", "5", ".", "1">>
    /\ alias_map = <<E(sD, StrV(<<"B", ".", "1">>))>>
    /\ get_ancestral_dict(sD, alias_map).ok
    /\ ~result.ok
    /\ result.site = "not_multiple_of_three"

\* the suffix groups of the ancestor value the walk of the call starts at
StartSuffix == split_pango_name(AncestorValue(value, alias_map).text).suffix

\* the GroupSize groups the i-th iteration of the walk peels off
PeeledBy(i) ==
    JoinDotted(SubSeq(StartSuffix,
                      Len(StartSuffix) - GroupSize * i + 1,
                      Len(StartSuffix) - GroupSize * (i - 1)))

\* C19: in every chain ancestry returns, each entry that is not terminal is
\* followed by an entry, and its value is that entry's key followed by
\* exactly 3 suffix groups: the last 3 groups of the canonical value that
\* was reverse-mapped to the entry's key (the ancestor value shortened by 3
\* groups per earlier entry); the keys of the chain are pairwise distinct.
C19_Linked ==
    (AncestryDone /\ result.ok) =>
        /\ \A i \in 1..Len(result.chain) :
               ~result.chain[i].none =>
                   /\ i < Len(result.chain)
                   /\ result.chain[i].parent
                          = result.chain[i + 1].key \o PeeledBy(i)
        /\ \A i, j \in 1..Len(result.chain) :
               i # j => result.chain[i].key # result.chain[j].key

\* the returned chain ends with a terminal entry
EndsWithTerminal ==
    result.chain # <<>> /\ result.chain[Len(result.chain)].none

\* the entries of every returned chain that ends with a terminal entry link
\* up as C19 states
LinkedUpToTerminal ==
    (AncestryDone /\ result.ok /\ EndsWithTerminal) =>
        /\ \A i \in 1..(Len(result.chain) - 1) :
               /\ ~result.chain[i].none
               /\ result.chain[i].parent = result.chain[i + 1].key \o PeeledBy(i)
        /\ \A i, j \in 1..Len(result.chain) :
               i # j => result.chain[i].key # result.chain[j].key

\* the starting canonical form of the call: the unrolled name, or the
\* normalized value of a bare alias
StartOf == StartingForm(Strip(value), split_pango_name(Strip(value)), alias_map)

\* the name's own suffix groups
OwnSuffix == split_pango_name(Strip(value)).suffix

\* C20: no ancestry call fails with "unrolled designation shorter than
\* original suffix"; when the walk starts, the starting canonical form has
\* at least as many suffix groups as the name, and the ancestor value is
\* that form without exactly the name's own trailing groups.
C20_NeverShorter ==
    op = "ancestry" =>
        /\ result.site # "shorter_than_suffix"
        /\ (pc = "walk" /\ iterations = 0) =>
               /\ StartOf.ok
               /\ CountDots(StartOf.text) >= Len(OwnSuffix)
               /\ StartOf.text = current_value \o JoinDotted(OwnSuffix)

\* "Q.5" with Q -> "B": the unrolled form "B.5" has no group but the name's
C20_Witness ==
    /\ op = "ancestry"
    /\ pc = "walk"
    /\ iterations = 0
    /\ value = <<"Q", ".", "5">>
    /\ Holds(sQ, StrV(sB))
    /\ StartOf.text = <<"B", ".", "5">>
    /\ current_value = sB

====
